---- MODULE Spec2Model ----
(***************************************************************************)
(* Model of the DART benchmark proxy (src/app.py): one POST handler that   *)
(* looks up each peer's financial statements, extracts line items,        *)
(* derives nine ratios and averages them over the peers.                   *)
(*                                                                         *)
(* Numbers.  Python floats are modelled as exact rationals <<n, d>> in     *)
(* lowest terms with d > 0; None is the empty tuple.  Amount strings are   *)
(* sequences of one-character strings, so that parsing is computed.  The   *)
(* Korean account labels of the source are written with ASCII names, the   *)
(* source label being given next to each.                                  *)
(***************************************************************************)
EXTENDS Integers, Sequences, FiniteSets, TLC

VARIABLES pc, req, idx, all_ratios, log, outcome, response,
          fn_pc, items, name_kr, ret

vars == <<pc, req, idx, all_ratios, log, outcome, response, fn_pc, items, name_kr, ret>>

reqVars == <<pc, req, idx, all_ratios, log, outcome, response>>

fnVars == <<fn_pc, items, name_kr, ret>>

-----------------------------------------------------------------------------
(* Bounds of the model *)

MaxPeers == 3

MaxItems == 2

MaxRawLen == 1

-----------------------------------------------------------------------------
(* Values *)

None == <<>>

\* a key that a dict does not have: it.get(key) gives None
Null == <<"null">>

Abs(n) == IF n < 0 THEN -n ELSE n

RECURSIVE GCD(_, _)
GCD(a, b) == IF b = 0 THEN a ELSE GCD(b, a % b)

\* the rational n/d (d # 0) in lowest terms, sign in the numerator
Frac(n, d) ==
    LET g == GCD(Abs(n), Abs(d))
        s == IF d < 0 THEN -1 ELSE 1
    IN  <<(s * n) \div g, (s * d) \div g>>

FDiv(a, b) == Frac(a[1] * b[2], a[2] * b[1])

FAdd(a, b) == Frac(a[1] * b[2] + b[1] * a[2], a[2] * b[2])

IsZero(a) == a[1] = 0

\* the sequences over S of length at most n
RECURSIVE SeqsUpTo(_, _)
SeqsUpTo(S, n) ==
    IF n = 0 THEN {<<>>}
    ELSE LET shorter == SeqsUpTo(S, n - 1)
         IN  shorter \cup {Append(q, x) : q \in {t \in shorter : Len(t) = n - 1}, x \in S}

-----------------------------------------------------------------------------
(* extract_amount: src/app.py 69-79 *)

Digits == {"0", "1", "2", "3", "4", "5", "6", "7", "8", "9"}

DigitVal(c) ==
    CASE c = "0" -> 0 [] c = "1" -> 1 [] c = "2" -> 2 [] c = "3" -> 3
      [] c = "4" -> 4 [] c = "5" -> 5 [] c = "6" -> 6 [] c = "7" -> 7
      [] c = "8" -> 8 [] c = "9" -> 9

\* str(raw).replace(",", "")
RECURSIVE StripCommas(_)
StripCommas(s) ==
    IF s = <<>> THEN <<>>
    ELSE IF Head(s) = "," THEN StripCommas(Tail(s))
    ELSE <<Head(s)>> \o StripCommas(Tail(s))

RECURSIVE DigitsValue(_, _)
DigitsValue(s, acc) ==
    IF s = <<>> THEN acc ELSE DigitsValue(Tail(s), 10 * acc + DigitVal(Head(s)))

AllDigits(s) == s # <<>> /\ \A k \in 1..Len(s) : s[k] \in Digits

\* float(text) on the texts of this model, which are made of digits, "-" and
\* "x" (the amounts of the upstream service are signed integers): it succeeds
\* on a digit string with an optional leading sign and raises ValueError on
\* everything else, the empty text included; the except of line 77 turns the
\* error into None.  Decimal points, exponents and the texts "inf" and "nan"
\* are outside the model.
ParseFloat(s) ==
    IF AllDigits(s) THEN Frac(DigitsValue(s, 0), 1)
    ELSE IF s # <<>> /\ Head(s) = "-" /\ AllDigits(Tail(s))
         THEN Frac(-DigitsValue(Tail(s), 0), 1)
    ELSE None

\* "not raw": a missing key (None) or the empty string
Falsy(raw) == raw = Null \/ raw = <<>>

\* lines 72-78: the body run on the matched item
AmountOf(it) ==
    LET raw == it.thstrm_amount
    IN  IF Falsy(raw) THEN None ELSE ParseFloat(StripCommas(raw))

\* a plausible slip: an item with an empty amount is passed over and the scan
\* goes on to a later item of the same label
RECURSIVE extract_amount_skip_empty(_, _)
extract_amount_skip_empty(its, name) ==
    IF its = <<>> THEN None
    ELSE IF Head(its).account_nm = name /\ ~Falsy(Head(its).thstrm_amount)
         THEN AmountOf(Head(its))
    ELSE extract_amount_skip_empty(Tail(its), name)

RECURSIVE extract_amount(_, _)
extract_amount(its, name) ==
    IF its = <<>> THEN None
    ELSE IF Head(its).account_nm = name THEN AmountOf(Head(its))
    ELSE extract_amount(Tail(its), name)

-----------------------------------------------------------------------------
(* compute_ratios_from_items: src/app.py 81-111 *)

\* account labels (account_nm) looked up by the source, lines 82-91
CurrentAssets == "current_assets"        \* yudong-jasan
CurrentLiab   == "current_liabilities"   \* yudong-buchae
TotalAssets   == "total_assets"          \* jasan-chonggye
TotalLiab     == "total_liabilities"     \* buchae-chonggye
TotalEquity   == "total_equity"          \* jabon-chonggye
Revenue       == "revenue"               \* maechul-aek
OpIncome      == "operating_income"      \* yeongeop-iik
NetIncome     == "net_income"            \* danggi-sun-iik
InterestExp   == "interest_expense"      \* ija-biyong
Inventory     == "inventory"             \* jaego-jasan

Fields == {CurrentAssets, CurrentLiab, TotalAssets, TotalLiab, TotalEquity,
           Revenue, OpIncome, NetIncome, InterestExp, Inventory}

RatioNames == {"current_ratio", "debt_ratio", "oper_margin", "net_margin",
               "roe", "roa", "asset_turnover", "inventory_turnover",
               "interest_coverage"}

\* a plausible slip: "not a" in place of "a is None" loses a zero numerator
div_falsy_numerator(a, b) ==
    IF a = None \/ IsZero(a) \/ b = None \/ IsZero(b) THEN None ELSE FDiv(a, b)

\* lines 93-99
div(a, b) ==
    IF a = None \/ b = None \/ IsZero(b) THEN None ELSE FDiv(a, b)

\* "x if v else None": v is falsy when None or 0.0
Truthy(v) == v # None /\ ~IsZero(v)

compute_ratios_from_items(its) ==
    LET current_assets == extract_amount(its, CurrentAssets)
        current_liab   == extract_amount(its, CurrentLiab)
        total_assets   == extract_amount(its, TotalAssets)
        total_liab     == extract_amount(its, TotalLiab)
        total_equity   == extract_amount(its, TotalEquity)
        revenue        == extract_amount(its, Revenue)
        op_income      == extract_amount(its, OpIncome)
        net_income     == extract_amount(its, NetIncome)
        interest_exp   == extract_amount(its, InterestExp)
        inventory      == extract_amount(its, Inventory)
    IN  [current_ratio      |-> div(current_assets, current_liab),
         debt_ratio         |-> div(total_liab, total_equity),
         oper_margin        |-> div(op_income, revenue),
         net_margin         |-> div(net_income, revenue),
         roe                |-> div(net_income, total_equity),
         roa                |-> div(net_income, total_assets),
         asset_turnover     |-> div(revenue, total_assets),
         inventory_turnover |-> IF Truthy(inventory) THEN div(revenue, inventory) ELSE None,
         interest_coverage  |-> IF Truthy(interest_exp) THEN div(op_income, interest_exp) ELSE None]

-----------------------------------------------------------------------------
(* Aggregation: src/app.py 138-152 *)

\* pd.DataFrame(all_ratios): a column whose every entry is None has dtype
\* object; a column with at least one float is float64, None becoming NaN.
\* df.mean(numeric_only=True) keeps the float64 columns only.
NumericColumns(rows) ==
    {k \in RatioNames : \E i \in 1..Len(rows) : rows[i][k] # None}

RECURSIVE ColumnSum(_, _, _)
ColumnSum(rows, k, i) ==
    IF i > Len(rows) THEN <<0, 1>>
    ELSE IF rows[i][k] = None THEN ColumnSum(rows, k, i + 1)
    ELSE FAdd(rows[i][k], ColumnSum(rows, k, i + 1))

ColumnCount(rows, k) == Cardinality({i \in 1..Len(rows) : rows[i][k] # None})

\* a plausible slip: absent entries filled with zero (fillna(0)) before the mean
ColumnMean_zero_filled(rows, k) ==
    FDiv(ColumnSum(rows, k, 1), <<Len(rows), 1>>)

\* the mean of a float64 column skips NaN
ColumnMean(rows, k) ==
    FDiv(ColumnSum(rows, k, 1), <<ColumnCount(rows, k), 1>>)

\* lines 142-144: a mean that is NaN or infinite becomes None; the means of
\* this model are rationals, hence finite
NanToNone(v) == IF v # None /\ Len(v) = 2 /\ v[2] # 0 THEN v ELSE None

Benchmarks(rows) ==
    [k \in NumericColumns(rows) |-> NanToNone(ColumnMean(rows, k))]

BenchmarkResponse(r, rows) ==
    [source      |-> "dart",
     year        |-> r.year,
     count_peers |-> Len(rows),
     benchmarks  |-> Benchmarks(rows),
     notes       |-> "DART fnlttSinglAcntAll"]

-----------------------------------------------------------------------------
(* The upstream service and the request *)

Item(label, raw) == [account_nm |-> label, thstrm_amount |-> raw]

\* the statement of the spec's round-trip scenario
StatementFull ==
    <<Item(CurrentAssets, <<"3", "0", "0">>), Item(CurrentLiab, <<"1", "0", "0">>),
      Item(TotalAssets, <<"1", ",", "0", "0", "0">>), Item(TotalLiab, <<"4", "0", "0">>),
      Item(TotalEquity, <<"6", "0", "0">>), Item(Revenue, <<"5", "0", "0">>),
      Item(OpIncome, <<"5", "0">>), Item(NetIncome, <<"3", "0">>),
      Item(InterestExp, <<"0">>), Item(Inventory, <<"0">>)>>

\* every ratio computable: roe 0.05, current_ratio 2.0
StatementA ==
    <<Item(CurrentAssets, <<"2", "0", "0">>), Item(CurrentLiab, <<"1", "0", "0">>),
      Item(TotalAssets, <<"1", ",", "0", "0", "0">>), Item(TotalLiab, <<"4", "0", "0">>),
      Item(TotalEquity, <<"6", "0", "0">>), Item(Revenue, <<"5", "0", "0">>),
      Item(OpIncome, <<"5", "0">>), Item(NetIncome, <<"3", "0">>),
      Item(InterestExp, <<"1", "0">>), Item(Inventory, <<"5", "0">>)>>

\* roe 0.15, no current_ratio
StatementB ==
    <<Item(NetIncome, <<"9", "0">>), Item(TotalEquity, <<"6", "0", "0">>),
      Item(CurrentAssets, <<>>), Item(CurrentLiab, <<"1", "0", "0">>)>>

Statements == {StatementFull, StatementA, StatementB, <<>>}

\* status "000" is success, "013" is no data, "020" stands for any other code
Statuses == {"000", "013", "020"}

UpstreamData ==
    {[status |-> "000", list |-> s] : s \in Statements}
        \cup {[status |-> c, list |-> <<>>] : c \in {"013", "020"}}

CorpCodes == {"00126380", "00126370"}

Years == {"2022", "2023"}

ReportCodes == {"11011", "11012"}

MetricsChoices == {RatioNames, {"roe"}}

Requests ==
    [year : Years, report_code : ReportCodes,
     peers : SeqsUpTo(CorpCodes, MaxPeers) \cup {Null},
     metrics : MetricsChoices]

\* a plausible slip: only a missing list is rejected, an empty one passes
not_peers_none_only(p) == p = Null

\* line 119: "not req.peers" holds of None and of the empty list
not_peers(p) == p = Null \/ p = <<>>

\* a plausible slip: the report code is left at its default
LookupParams_default_code(corp, r) ==
    [corp_code |-> corp, bsns_year |-> r.year, reprt_code |-> "11011",
     fs_div |-> "CFS"]

\* lines 57-63: the parameters of the outbound request
LookupParams(corp, r) ==
    [corp_code |-> corp, bsns_year |-> r.year, reprt_code |-> r.report_code,
     fs_div |-> "CFS"]

\* a plausible slip: every status but "no data" counts as usable
IsUsable_not_013(data) == data.status # "013"

\* line 128
IsUsable(data) == data.status = "000"

\* a plausible slip: the empty result is not rejected
no_ratios_never(rows) == FALSE

\* line 135: "not all_ratios"
no_ratios(rows) == rows = <<>>

Init ==
    /\ pc = "start"
    /\ req \in Requests
    /\ idx = 0
    /\ all_ratios = <<>>
    /\ log = <<>>
    /\ outcome = "none"
    /\ response = None
    /\ fn_pc = "idle"
    /\ items = <<>>
    /\ name_kr = ""
    /\ ret = None

\* lines 119-123
RejectMissingPeers ==
    /\ pc = "start"
    /\ not_peers(req.peers)
    /\ pc' = "done"
    /\ outcome' = "400"
    /\ UNCHANGED <<req, idx, all_ratios, log, response>>
    /\ UNCHANGED fnVars

\* lines 125-126: the loop is entered
BeginLoop ==
    /\ pc = "start"
    /\ ~not_peers(req.peers)
    /\ pc' = "loop"
    /\ idx' = 1
    /\ all_ratios' = <<>>
    /\ UNCHANGED <<req, log, outcome, response>>
    /\ UNCHANGED fnVars

\* lines 127, 55-64: the request for the next peer is sent
IssueLookup ==
    /\ pc = "loop"
    /\ idx <= Len(req.peers)
    /\ log' = Append(log, [params |-> LookupParams(req.peers[idx], req),
                           result |-> "pending"])
    /\ pc' = "fetching"
    /\ UNCHANGED <<req, idx, all_ratios, outcome, response>>
    /\ UNCHANGED fnVars

Answered(l, res) == [l EXCEPT ![Len(l)].result = res]

\* a plausible slip: a failed lookup is caught and the peer skipped
LookupFaults_caught ==
    /\ pc = "fetching"
    /\ log' = Answered(log, "fault")
    /\ idx' = idx + 1
    /\ pc' = "loop"
    /\ UNCHANGED <<req, all_ratios, outcome, response>>
    /\ UNCHANGED fnVars

\* lines 64-65: requests.get or r.json() raises (timeout, connection error,
\* malformed JSON); nothing catches it and the handler ends
LookupFaults ==
    /\ pc = "fetching"
    /\ log' = Answered(log, "fault")
    /\ pc' = "done"
    /\ outcome' = "fault"
    /\ UNCHANGED <<req, idx, all_ratios, response>>
    /\ UNCHANGED fnVars

\* a plausible slip: a status other than success and no-data raises
LookupSkipped_raise_unexpected ==
    /\ pc = "fetching"
    /\ \E data \in UpstreamData :
          /\ ~IsUsable(data)
          /\ log' = Answered(log, data.status)
          /\ IF data.status = "013"
             THEN /\ idx' = idx + 1
                  /\ pc' = "loop"
                  /\ outcome' = outcome
             ELSE /\ idx' = idx
                  /\ pc' = "done"
                  /\ outcome' = "fault"
    /\ UNCHANGED <<req, all_ratios, response>>
    /\ UNCHANGED fnVars

\* lines 128-130: the answer is no success, the peer is skipped
LookupSkipped ==
    /\ pc = "fetching"
    /\ \E data \in UpstreamData :
          /\ ~IsUsable(data)
          /\ log' = Answered(log, data.status)
    /\ idx' = idx + 1
    /\ pc' = "loop"
    /\ UNCHANGED <<req, all_ratios, outcome, response>>
    /\ UNCHANGED fnVars

\* lines 131-133: the answer is a success, its ratios are kept
LookupUsed ==
    /\ pc = "fetching"
    /\ \E data \in UpstreamData :
          /\ IsUsable(data)
          /\ log' = Answered(log, data.status)
          /\ all_ratios' = Append(all_ratios, compute_ratios_from_items(data.list))
    /\ idx' = idx + 1
    /\ pc' = "loop"
    /\ UNCHANGED <<req, outcome, response>>
    /\ UNCHANGED fnVars

\* lines 135-136
RaiseNoUsableData ==
    /\ pc = "loop"
    /\ idx > Len(req.peers)
    /\ no_ratios(all_ratios)
    /\ pc' = "done"
    /\ outcome' = "404"
    /\ UNCHANGED <<req, idx, all_ratios, log, response>>
    /\ UNCHANGED fnVars

\* lines 138-152
Respond ==
    /\ pc = "loop"
    /\ idx > Len(req.peers)
    /\ ~no_ratios(all_ratios)
    /\ response' = BenchmarkResponse(req, all_ratios)
    /\ pc' = "done"
    /\ outcome' = "200"
    /\ UNCHANGED <<req, idx, all_ratios, log>>
    /\ UNCHANGED fnVars

Next ==
    \/ RejectMissingPeers
    \/ BeginLoop
    \/ IssueLookup
    \/ LookupFaults
    \/ LookupSkipped
    \/ LookupUsed
    \/ RaiseNoUsableData
    \/ Respond

Spec == Init /\ [][Next]_vars

-----------------------------------------------------------------------------
(* The two pure functions applied to bounded inputs *)

RawChars == {"1", "2", ",", "x"}

RawAmounts == SeqsUpTo(RawChars, MaxRawLen) \cup {Null}

ExtractNames == {CurrentAssets, Revenue}

ExtractItems == [account_nm : ExtractNames, thstrm_amount : RawAmounts]

NoRequest ==
    /\ pc = "idle"
    /\ req = [year |-> "", report_code |-> "", peers |-> Null]
    /\ idx = 0
    /\ all_ratios = <<>>
    /\ log = <<>>
    /\ outcome = "none"
    /\ response = None

InitExtract ==
    /\ NoRequest
    /\ fn_pc = "call"
    /\ items \in SeqsUpTo(ExtractItems, MaxItems)
    /\ name_kr \in ExtractNames
    /\ ret = None

CallExtractAmount ==
    /\ fn_pc = "call"
    /\ ret' = extract_amount(items, name_kr)
    /\ fn_pc' = "extracted"
    /\ UNCHANGED <<items, name_kr>>
    /\ UNCHANGED reqVars

SpecExtract == InitExtract /\ [][CallExtractAmount]_vars

\* the amounts a statement may carry for a field: no such item, "0", or a value
FieldAmounts(f) ==
    IF f \in {CurrentAssets, TotalLiab, OpIncome, NetIncome}
    THEN {Null, <<"0">>, <<"3">>}
    ELSE {Null, <<"0">>, <<"2">>}

FieldOrder == <<CurrentAssets, CurrentLiab, TotalAssets, TotalLiab, TotalEquity,
                Revenue, OpIncome, NetIncome, InterestExp, Inventory>>

\* the statement that lists, in FieldOrder, an item for every field a[f] # Null
RECURSIVE Statement(_, _)
Statement(a, k) ==
    IF k > Len(FieldOrder) THEN <<>>
    ELSE IF a[FieldOrder[k]] = Null THEN Statement(a, k + 1)
    ELSE <<[account_nm |-> FieldOrder[k], thstrm_amount |-> a[FieldOrder[k]]]>>
             \o Statement(a, k + 1)

InitRatios ==
    /\ NoRequest
    /\ fn_pc = "call"
    /\ \E a \in [Fields -> {Null, <<"0">>, <<"2">>, <<"3">>}] :
          /\ \A f \in Fields : a[f] \in FieldAmounts(f)
          /\ items = Statement(a, 1)
    /\ name_kr = ""
    /\ ret = None

CallComputeRatios ==
    /\ fn_pc = "call"
    /\ ret' = compute_ratios_from_items(items)
    /\ fn_pc' = "computed"
    /\ UNCHANGED <<items, name_kr>>
    /\ UNCHANGED reqVars

SpecRatios == InitRatios /\ [][CallComputeRatios]_vars

-----------------------------------------------------------------------------
(* Claims about the pure functions *)

Min(S) == CHOOSE k \in S : \A j \in S : k <= j

Matching(its, name) == {k \in 1..Len(its) : its[k].account_nm = name}

IsNumber(v) == v # None /\ Len(v) = 2

\* C7: extract_amount returns None when no item carries the label; otherwise
\* only the first item carrying it decides: None when its amount is missing,
\* empty or unparseable (whatever later items carry), else its parsed amount.
Thm_C7_FirstMatchOnly ==
    fn_pc = "extracted" =>
        LET M == Matching(items, name_kr)
        IN  IF M = {} THEN ret = None
            ELSE LET raw == items[Min(M)].thstrm_amount
                 IN  /\ ret = (IF raw = Null \/ raw = <<>> THEN None
                                ELSE ParseFloat(StripCommas(raw)))
                     /\ (ret = None \/ IsNumber(ret))

Wit_C7_LaterValidIgnored ==
    /\ fn_pc = "extracted"
    /\ Cardinality(Matching(items, name_kr)) = 2
    /\ items[1].thstrm_amount \in {Null, <<>>, <<"x">>, <<",">>}
    /\ AmountOf(items[2]) # None
    /\ ret = None

\* the formula of each ratio: numerator field, denominator field (spec 4.3)
RatioFormula ==
    [current_ratio      |-> <<CurrentAssets, CurrentLiab>>,
     debt_ratio         |-> <<TotalLiab, TotalEquity>>,
     oper_margin        |-> <<OpIncome, Revenue>>,
     net_margin         |-> <<NetIncome, Revenue>>,
     roe                |-> <<NetIncome, TotalEquity>>,
     roa                |-> <<NetIncome, TotalAssets>>,
     asset_turnover     |-> <<Revenue, TotalAssets>>,
     inventory_turnover |-> <<Revenue, Inventory>>,
     interest_coverage  |-> <<OpIncome, InterestExp>>]

\* C6: every one of the nine ratios is None when its numerator field is absent
\* or its denominator field is absent or zero, and numerator / denominator
\* otherwise; the computation always returns the nine-key dictionary.
Thm_C6_NullSafeRatios ==
    fn_pc = "computed" =>
        /\ DOMAIN ret = RatioNames
        /\ \A r \in RatioNames :
              LET num == extract_amount(items, RatioFormula[r][1])
                  den == extract_amount(items, RatioFormula[r][2])
              IN  IF num = None \/ den = None \/ den[1] = 0
                  THEN ret[r] = None
                  ELSE ret[r] = Frac(num[1] * den[2], num[2] * den[1])

Wit_C6_ZeroInventory ==
    /\ fn_pc = "computed"
    /\ extract_amount(items, Inventory) = <<0, 1>>
    /\ extract_amount(items, InterestExp) = None
    /\ extract_amount(items, Revenue) = <<2, 1>>
    /\ extract_amount(items, NetIncome) = <<0, 1>>
    /\ ret.inventory_turnover = None
    /\ ret.interest_coverage = None
    /\ ret.current_ratio = <<3, 2>>
    /\ ret.net_margin = <<0, 1>>

-----------------------------------------------------------------------------
(* Claims about the request *)

HasPeers == req.peers # Null /\ req.peers # <<>>

Results(res) == {k \in 1..Len(log) : log[k].result = res}

\* C1: a request whose peer list is missing or empty ends with 400 and no
\* lookup is ever issued for it.
Thm_C1_MissingPeersRejected ==
    (req.peers = Null \/ req.peers = <<>>) =>
        /\ log = <<>>
        /\ response = None
        /\ pc \in {"start", "done"}
        /\ (pc = "done" => outcome = "400")

Wit_C1_EmptyListRejected ==
    /\ pc = "done"
    /\ req.peers = <<>>
    /\ outcome = "400"
    /\ log = <<>>

\* C2: when every lookup of a non-empty peer list was answered and none with
\* the success status, the request ends with 404; no response has
\* count_peers = 0.
Thm_C2_NoUsableData ==
    /\ (pc = "done" /\ HasPeers /\ outcome # "fault" /\ Results("000") = {})
           => (outcome = "404" /\ response = None)
    /\ (outcome = "200" => response.count_peers # 0)
    /\ (outcome = "404" => Results("000") = {})

Wit_C2_AllPeersUnusable ==
    /\ pc = "done"
    /\ outcome = "404"
    /\ Len(log) = 2
    /\ log[1].result = "013"
    /\ log[2].result = "020"

\* C3: in a response count_peers is the number of lookups answered with the
\* success status, between 1 and the length of the peer list; a lookup
\* answered with another status leaves the request running.
Thm_C3_CountPeers ==
    /\ outcome = "200" =>
          /\ response.count_peers = Cardinality(Results("000"))
          /\ response.count_peers >= 1
          /\ response.count_peers <= Len(req.peers)
    /\ \A k \in Results("013") :
          outcome # "fault" \/ log[Len(log)].result = "fault"

Wit_C3_NoDataPeerSkipped ==
    /\ outcome = "200"
    /\ Len(req.peers) = 3
    /\ log[1].result = "013"
    /\ log[2].result = "020"
    /\ log[3].result = "000"
    /\ response.count_peers = 1

BenchGet(b, k) == IF k \in DOMAIN b THEN b[k] ELSE None

Present(rows, r) == {i \in 1..Len(rows) : rows[i][r] # None}

RECURSIVE DenProduct(_, _, _)
DenProduct(rows, r, i) ==
    IF i > Len(rows) THEN 1
    ELSE IF rows[i][r] = None THEN DenProduct(rows, r, i + 1)
    ELSE rows[i][r][2] * DenProduct(rows, r, i + 1)

RECURSIVE ScaledSum(_, _, _, _)
ScaledSum(rows, r, i, L) ==
    IF i > Len(rows) THEN 0
    ELSE IF rows[i][r] = None THEN ScaledSum(rows, r, i + 1, L)
    ELSE rows[i][r][1] * (L \div rows[i][r][2]) + ScaledSum(rows, r, i + 1, L)

\* v is the arithmetic mean of the present entries of column r
IsMeanOfPresent(v, rows, r) ==
    LET L == DenProduct(rows, r, 1)
        n == Cardinality(Present(rows, r))
    IN  /\ v # None
        /\ v[2] > 0
        /\ v[1] * L * n = v[2] * ScaledSum(rows, r, 1, L)

\* C4: in a response the value of every ratio is the arithmetic mean over the
\* peers where the ratio is present, and absent when it is present for none.
Thm_C4_MeanOverPresent ==
    outcome = "200" =>
        \A r \in RatioNames :
            LET v == BenchGet(response.benchmarks, r)
            IN  IF Present(all_ratios, r) = {} THEN v = None
                ELSE IsMeanOfPresent(v, all_ratios, r)

Wit_C4_TwoPeerMean ==
    /\ outcome = "200"
    /\ response.count_peers = 2
    /\ all_ratios[1].roe = <<1, 20>>
    /\ all_ratios[2].roe = <<3, 20>>
    /\ all_ratios[1].current_ratio = <<2, 1>>
    /\ all_ratios[2].current_ratio = None
    /\ BenchGet(response.benchmarks, "roe") = <<1, 10>>
    /\ BenchGet(response.benchmarks, "current_ratio") = <<2, 1>>
    /\ BenchGet(response.benchmarks, "inventory_turnover") = <<10, 1>>

\* C5: the benchmarks of every response have the nine ratio names as keys.
Cex_C5_AllNineKeys ==
    outcome = "200" => DOMAIN response.benchmarks = RatioNames

\* C8: a lookup that fails in transport ends the request with a fault: it is
\* the last lookup issued, and no response is produced whatever the earlier
\* peers returned.
Thm_C8_TransportFaultAborts ==
    \A k \in Results("fault") :
        /\ k = Len(log)
        /\ pc = "done"
        /\ outcome = "fault"
        /\ response = None

Wit_C8_FaultAfterUsablePeer ==
    /\ outcome = "fault"
    /\ Len(req.peers) = 3
    /\ Len(log) = 2
    /\ log[1].result = "000"
    /\ log[2].result = "fault"
    /\ Len(all_ratios) = 1

\* C9 as stated: a lookup answered with a status that is neither success nor
\* no-data aborts the request with a fault.
Cex_C9_UnexpectedStatusAborts ==
    Results("020") # {} => (pc = "done" /\ outcome = "fault")

\* C9 amended: a lookup answered with a status that is neither success nor
\* no-data is skipped like a no-data answer: it adds no ratio set, it causes
\* no fault, and the lookups of the following peers are issued.
Thm_C9_UnexpectedStatusSkipped ==
    Results("020") # {} =>
        /\ Len(all_ratios) = Cardinality(Results("000"))
        /\ (outcome = "fault" => log[Len(log)].result = "fault")
        /\ (pc = "done" /\ outcome # "fault" => Len(log) = Len(req.peers))
        /\ (pc = "loop" => idx = Len(log) + 1)

Wit_C9_SkippedThenAnswered ==
    /\ outcome = "200"
    /\ Len(log) = 2
    /\ log[1].result = "020"
    /\ log[2].result = "000"
    /\ response.count_peers = 1

\* C10: lookups are issued one at a time in the order of the peer list, one
\* per entry, each with the request's year and report code; a response or a
\* 404 comes only after the last lookup was answered.
Thm_C10_SequentialLookups ==
    /\ (~HasPeers => log = <<>>)
    /\ HasPeers =>
          /\ Len(log) <= Len(req.peers)
          /\ \A k \in 1..Len(log) :
                /\ log[k].params.corp_code = req.peers[k]
                /\ log[k].params.bsns_year = req.year
                /\ log[k].params.reprt_code = req.report_code
                /\ (log[k].result = "pending" => k = Len(log) /\ pc = "fetching")
          /\ (outcome \in {"200", "404"} =>
                 /\ Len(log) = Len(req.peers)
                 /\ Results("pending") = {})

Wit_C10_RepeatedPeerLookedUpAgain ==
    /\ outcome = "200"
    /\ Len(req.peers) = 3
    /\ req.peers[1] = req.peers[2]
    /\ req.peers[3] # req.peers[1]
    /\ req.report_code = "11012"
    /\ Len(log) = 3
    /\ log[1].result = "013"
    /\ log[2].result = "000"

====
